---------------------------- MODULE Spec2Model ----------------------------
(***************************************************************************)
(* Model of etl.py: the Spark job that builds the songs, artists, users,   *)
(* time and songplays tables from the song catalog and the event log.      *)
(*                                                                         *)
(* A DataFrame is a sequence of rows, a row is a record (a function from   *)
(* column names to values).  The order of a sequence carries no meaning;   *)
(* everything stated about tables is stated about their rows.              *)
(***************************************************************************)
EXTENDS Integers, Sequences, FiniteSets, TLC

\* Bounds of the model: longest catalog, longest event log, number of
\* partitions the engine may spread the joined rows over.
MaxCatalog == 2
MaxEvents == 2
NumPartitions == 2

NULL == "null"

(***************************************************************************)
(* Inputs                                                                  *)
(***************************************************************************)

\* One record of song_data (the columns etl.py projects, lines 41 and 47).
CatalogRecord(song_id, title, artist_id, duration) ==
    [song_id |-> song_id, title |-> title, artist_id |-> artist_id,
     year |-> 2018, duration |-> duration,
     artist_name |-> "name_" \o artist_id, artist_location |-> "loc",
     artist_latitude |-> NULL, artist_longitude |-> NULL]

\* Catalog records the song_data files may hold: two songs share title T1.
CatalogRecords ==
    { CatalogRecord("S1", "T1", "A1", 200),
      CatalogRecord("S2", "T1", "A2", 300),
      CatalogRecord("S3", "T2", "A1", 200) }

\* A raw ts of the event log is 1000 * q + r milliseconds, carried as <<q, r>>
\* (the values of 2018 do not fit the integers of the model checker).
TsA == <<1541990258, 796>>   \* 2018-11-12 02:37:38.796 UTC
TsB == <<1546214400, 5>>     \* 2018-12-31 00:00:00.005 UTC

\* One record of log_data (the columns etl.py uses, lines 66-97).
EventRecord(page, userId, level, song, ts, sessionId) ==
    [page |-> page, userId |-> userId, firstName |-> "fn_" \o userId,
     lastName |-> "ln_" \o userId, gender |-> "F", level |-> level,
     song |-> song, ts |-> ts, sessionId |-> sessionId,
     location |-> "loc_" \o userId, userAgent |-> "ua"]

\* Event records the log may hold: T3 is a title of no catalog record, the
\* first two events share their ts, the third is no song play.
EventRecords ==
    { EventRecord("NextSong", "u1", "free", "T1", TsA, 1),
      EventRecord("NextSong", "u1", "paid", "T3", TsA, 1),
      EventRecord("Home", "u2", "free", NULL, TsB, 2),
      EventRecord("NextSong", "u2", "free", "T2", TsB, 2) }

SeqsUpTo(S, n) == UNION { [1..k -> S] : k \in 0..n }

(***************************************************************************)
(* DataFrame operations                                                    *)
(***************************************************************************)

Range(s) == { s[i] : i \in DOMAIN s }

\* df.select(cols)
Select(df, cols) == [i \in DOMAIN df |-> [c \in cols |-> df[i][c]]]

\* Indices of the rows that no earlier row equals.
FirstOccurrences(df) ==
    SelectSeq([i \in DOMAIN df |-> i],
              LAMBDA i : \A j \in 1..(i - 1) : df[j] # df[i])

\* The rows of df at the indices idx, in the order of idx.
Pick(df, idx) == [k \in DOMAIN idx |-> df[idx[k]]]

\* Variant of dropDuplicates that keeps every row.
KeepDuplicates(df) == df

\* df.dropDuplicates() / df.drop_duplicates(): full-row equality.
dropDuplicates(df) == Pick(df, FirstOccurrences(df))

\* Variant of FilterNextSong that keeps the events of every page.
FilterEveryPage(df) == df

\* df.filter(df.page == 'NextSong')
FilterNextSong(df) == SelectSeq(df, LAMBDA e : e.page = "NextSong")

RECURSIVE Flatten(_)
Flatten(ss) == IF ss = << >> THEN << >> ELSE Head(ss) \o Flatten(Tail(ss))

(***************************************************************************)
(* Timestamp decomposition (lines 75-84)                                   *)
(***************************************************************************)

\* datetime.utcfromtimestamp(int(x)/1000): seconds and microseconds.
get_timestamp(ts) == [epoch_s |-> ts[1], micro |-> ts[2] * 1000]

DaysOf(t) == t.epoch_s \div 86400

\* Proleptic Gregorian date of a day number counted from 1970-01-01.
CivilFromDays(days) ==
    LET z == days + 719468
        era == z \div 146097
        doe == z - era * 146097
        yoe == (doe - doe \div 1460 + doe \div 36524 - doe \div 146096) \div 365
        doy == doe - (365 * yoe + yoe \div 4 - yoe \div 100)
        mp == (5 * doy + 2) \div 153
        d == doy - (153 * mp + 2) \div 5 + 1
        m == IF mp < 10 THEN mp + 3 ELSE mp - 9
        y == yoe + era * 400 + (IF m <= 2 THEN 1 ELSE 0)
    IN  [year |-> y, month |-> m, day |-> d]

IsLeap(y) == (y % 4 = 0 /\ y % 100 # 0) \/ y % 400 = 0

\* Day number of the first of January of year y.
DaysFromNewYear(y) ==
    LET p == y - 1
    IN  365 * (y - 1970) + (p \div 4 - p \div 100 + p \div 400) - 477

\* ISO weekday of a day number, 1 = Monday (1970-01-01 was a Thursday).
IsoWeekday(days) == ((days + 3) % 7) + 1

\* Number of ISO weeks of year y.
WeeksInYear(y) ==
    LET jan1 == IsoWeekday(DaysFromNewYear(y))
    IN  IF jan1 = 4 \/ (jan1 = 3 /\ IsLeap(y)) THEN 53 ELSE 52

hour(t) == (t.epoch_s % 86400) \div 3600
dayofmonth(t) == CivilFromDays(DaysOf(t)).day
month(t) == CivilFromDays(DaysOf(t)).month
year(t) == CivilFromDays(DaysOf(t)).year

\* ISO-8601 week number.
weekofyear(t) ==
    LET y == year(t)
        doy == DaysOf(t) - DaysFromNewYear(y) + 1
        w == (doy - IsoWeekday(DaysOf(t)) + 10) \div 7
    IN  IF w < 1 THEN WeeksInYear(y - 1)
        ELSE IF w > WeeksInYear(y) THEN 1
        ELSE w

\* date_format(start_time, "u"): the day number of the week, as a string.
weekday(t) == ToString(IsoWeekday(DaysOf(t)))


(***************************************************************************)
(* Parquet storage                                                         *)
(***************************************************************************)

\* df.write.parquet(path, mode="overwrite", partitionBy=partCols): every row
\* goes to the directory named by its partition columns, and the file keeps
\* the other columns only.
WriteParquet(df, partCols) ==
    [i \in DOMAIN df |->
        [dir |-> [c \in partCols |-> df[i][c]],
         data |-> [c \in (DOMAIN df[i]) \ partCols |-> df[i][c]]]]

\* spark.read.parquet(path): the columns of the file, then the partition
\* columns recovered from the directory names.
ReadParquet(files) ==
    [i \in DOMAIN files |->
        [c \in (DOMAIN files[i].data) \cup (DOMAIN files[i].dir) |->
            IF c \in DOMAIN files[i].data THEN files[i].data[c]
            ELSE files[i].dir[c]]]

Dimensions == {"songs", "artists", "users", "time"}
Tables == Dimensions \cup {"songplays"}

\* partitionBy of each table (lines 44, 50, 72, 90, 105).
PartitionBy(t) ==
    CASE t = "songs" -> {"year", "artist_id"}
      [] t = "time" -> {"year", "month"}
      [] t = "songplays" -> {"year", "month"}
      [] OTHER -> {}

(***************************************************************************)
(* The tables of process_song_data                                         *)
(***************************************************************************)

SongColumns == {"song_id", "title", "artist_id", "year", "duration"}
ArtistColumns == {"artist_id", "artist_name", "artist_location",
                  "artist_latitude", "artist_longitude"}

\* line 41
SongsTable(cdf) == dropDuplicates(Select(cdf, SongColumns))

\* line 47
ArtistsTable(cdf) == dropDuplicates(Select(cdf, ArtistColumns))

(***************************************************************************)
(* The tables of process_log_data                                          *)
(***************************************************************************)

UserColumns == {"userId", "firstName", "lastName", "gender", "level"}
TimeColumns == {"start_time", "hour", "day", "week", "month", "year", "weekday"}
SongplayColumns == {"songplay_id", "start_time", "userId", "level", "song_id",
                    "artist_id", "sessionId", "location", "userAgent"}

\* line 69
UsersTable(df) == dropDuplicates(Select(df, UserColumns))

\* lines 76-84: df.withColumn(...) for start_time and its calendar fields.
WithTimeColumns(df) ==
    [i \in DOMAIN df |->
        LET e == df[i]
            t == get_timestamp(e.ts)
            added == [start_time |-> t, hour |-> hour(t), day |-> dayofmonth(t),
                      week |-> weekofyear(t), month |-> month(t),
                      year |-> year(t), weekday |-> weekday(t)]
        IN  [c \in (DOMAIN e) \cup (DOMAIN added) |->
                IF c \in DOMAIN added THEN added[c] ELSE e[c]]]

\* Variant of TimeTable without its drop_duplicates.
TimeTableAllRows(df) == Select(df, TimeColumns)

\* line 87
TimeTable(df) == dropDuplicates(Select(df, TimeColumns))

\* The song side of a left-join row that found no song.
NoSong == [c \in SongColumns |-> NULL]

\* Variant of LeftJoin that joins with how='inner'.
InnerJoinSongs(df, sdf) ==
    Flatten([i \in DOMAIN df |->
        LET m == SelectSeq(sdf, LAMBDA s : s.title = df[i].song)
        IN  [j \in DOMAIN m |-> [l |-> df[i], r |-> m[j], src |-> i]]])

\* line 96: df.join(song_df, df.song == song_df.title, how='left').  A row of
\* the result is a row l of df beside a row r of song_df; src is the index of
\* l in df (kept beside the row, no column of it).
LeftJoin(df, sdf) ==
    Flatten([i \in DOMAIN df |->
        LET m == SelectSeq(sdf, LAMBDA s : df[i].song # NULL /\ s.title # NULL
                                            /\ s.title = df[i].song)
        IN  IF m = << >> THEN << [l |-> df[i], r |-> NoSong, src |-> i] >>
            ELSE [j \in DOMAIN m |-> [l |-> df[i], r |-> m[j], src |-> i]]])

\* Variant of monotonically_increasing_id that numbers the records of every
\* partition from the same base.
RecordNumberOnly(p, k) == <<0, k>>

\* monotonically_increasing_id(): the partition index in the upper 31 bits,
\* the record number within the partition in the lower 33 bits.  The 64-bit
\* value p * 2^33 + k is carried as <<p, k>>.
monotonically_increasing_id(p, k) == <<p, k>>

\* The record number of row i within its partition.
RecordNumber(part, i) == Cardinality({ j \in 1..(i - 1) : part[j] = part[i] })

\* lines 96-97: the select after the left join; part[i] is the partition that
\* holds row i of the join.
SelectSongplays(joined, part) ==
    [i \in DOMAIN joined |->
        [row |-> [c \in SongplayColumns |->
                    IF c = "songplay_id"
                      THEN monotonically_increasing_id(part[i], RecordNumber(part, i))
                    ELSE IF c \in {"song_id", "artist_id"} THEN joined[i].r[c]
                    ELSE joined[i].l[c]],
         src |-> joined[i].src]]

\* lines 100-102, before drop_duplicates: the inner join with time_table on
\* start_time and the select that adds year and month.
InnerJoinTime(sp, tt) ==
    Flatten([k \in DOMAIN sp |->
        LET m == SelectSeq(tt, LAMBDA t : t.start_time = sp[k].row.start_time)
        IN  [j \in DOMAIN m |->
               [row |-> [c \in SongplayColumns \cup {"year", "month"} |->
                           IF c \in {"year", "month"} THEN m[j][c]
                           ELSE sp[k].row[c]],
                src |-> sp[k].src]]])

\* line 102: drop_duplicates() on the rows (src is no column of a row).
DropDuplicateRows(all) ==
    Pick(all, FirstOccurrences([k \in DOMAIN all |-> all[k].row]))

\* lines 96-102: the songplays table with, beside each row, the event it
\* comes from.
SongplaysTable(df, sdf, tt, part) ==
    DropDuplicateRows(InnerJoinTime(SelectSongplays(LeftJoin(df, sdf), part), tt))

\* The ways the engine may place n rows in its partitions.
Partitionings(n) == [1..n -> 0..(NumPartitions - 1)]

(***************************************************************************)
(* State                                                                   *)
(***************************************************************************)

VARIABLES
    catalog,     \* the records under input_data/song_data
    events,      \* the records under input_data/log_data
    songOk,      \* whether song_data can be read
    logOk,       \* whether log_data can be read
    store,       \* output_data: the parquet files of each table
    pc,          \* the statement of main() to run next
    catalog_df,  \* df of process_song_data
    df,          \* df of process_log_data
    time_table,  \* time_table of process_log_data
    song_df,     \* song_df of process_log_data
    run,         \* 1 in the first run of main(), 2 in a second run
    before,      \* history: output_data when the current run started
    written,     \* history: the tables the current run has written
    lineage,     \* history: for each songplays row written, its row of df
    acct         \* history: row counts of the last songplays write: rows of
                 \* df, rows after the left join, rows after the inner join,
                 \* rows of df the inner join dropped, rows the dedup dropped

vars == <<catalog, events, songOk, logOk, store, pc, catalog_df, df,
          time_table, song_df, run, before, written, lineage, acct>>

EmptyStore == [t \in Tables |-> << >>]

\* What an earlier run over another catalog and another log left behind: its
\* songs table holds a song titled T3.
StaleStore ==
    LET cdf == << CatalogRecord("S9", "T3", "A9", 100) >>
        edf == WithTimeColumns(<< EventRecord("NextSong", "u9", "paid", "T3", TsB, 9) >>)
        sp == SongplaysTable(edf, SongsTable(cdf), TimeTable(edf), [i \in 1..1 |-> 0])
    IN  [t \in Tables |->
            WriteParquet(CASE t = "songs" -> SongsTable(cdf)
                           [] t = "artists" -> ArtistsTable(cdf)
                           [] t = "users" -> UsersTable(edf)
                           [] t = "time" -> TimeTable(edf)
                           [] t = "songplays" -> [k \in DOMAIN sp |-> sp[k].row],
                         PartitionBy(t))]

NoAcct == [filtered |-> 0, joined |-> 0, matched |-> 0, unmatched |-> 0,
           duplicates |-> 0]

\* Variant of After in which main() calls process_log_data first.
AfterLogFirst(label) ==
    CASE label = "main" -> "log_read"
      [] label = "log_read" -> "users_write"
      [] label = "users_write" -> "time_write"
      [] label = "time_write" -> "songs_readback"
      [] label = "songs_readback" -> "songplays_write"
      [] label = "songplays_write" -> "song_read"
      [] label = "song_read" -> "songs_write"
      [] label = "songs_write" -> "artists_write"
      [] label = "artists_write" -> "done"

\* The order of the statements of main(), process_song_data and
\* process_log_data that read a source or write a table.
After(label) ==
    CASE label = "main" -> "song_read"
      [] label = "song_read" -> "songs_write"
      [] label = "songs_write" -> "artists_write"
      [] label = "artists_write" -> "log_read"
      [] label = "log_read" -> "users_write"
      [] label = "users_write" -> "time_write"
      [] label = "time_write" -> "songs_readback"
      [] label = "songs_readback" -> "songplays_write"
      [] label = "songplays_write" -> "done"

Init ==
    /\ catalog \in SeqsUpTo(CatalogRecords, MaxCatalog)
    /\ events \in SeqsUpTo(EventRecords, MaxEvents)
    /\ songOk \in BOOLEAN
    /\ logOk \in BOOLEAN
    /\ store \in {EmptyStore, StaleStore}
    /\ before = store
    /\ pc = After("main")
    /\ catalog_df = << >>
    /\ df = << >>
    /\ time_table = << >>
    /\ song_df = << >>
    /\ run = 1
    /\ written = {}
    /\ lineage = << >>
    /\ acct = NoAcct

\* table.write.parquet(output_data + t, mode="overwrite", partitionBy=...)
Write(t, table) ==
    /\ store' = [store EXCEPT ![t] = WriteParquet(table, PartitionBy(t))]
    /\ written' = written \cup {t}

(***************************************************************************)
(* process_song_data                                                       *)
(***************************************************************************)

\* line 38: spark.read.json(song_data); an unreadable source raises.
ReadSongData ==
    /\ pc = "song_read"
    /\ IF songOk
         THEN /\ catalog_df' = catalog
              /\ pc' = After("song_read")
         ELSE /\ pc' = "failed"
              /\ UNCHANGED catalog_df
    /\ UNCHANGED <<catalog, events, songOk, logOk, store, df, time_table,
                   song_df, run, before, written, lineage, acct>>

\* lines 41-44
WriteSongs ==
    /\ pc = "songs_write"
    /\ Write("songs", SongsTable(catalog_df))
    /\ pc' = After("songs_write")
    /\ UNCHANGED <<catalog, events, songOk, logOk, catalog_df, df, time_table,
                   song_df, run, before, lineage, acct>>

\* lines 47-50
WriteArtists ==
    /\ pc = "artists_write"
    /\ Write("artists", ArtistsTable(catalog_df))
    /\ pc' = After("artists_write")
    /\ UNCHANGED <<catalog, events, songOk, logOk, catalog_df, df, time_table,
                   song_df, run, before, lineage, acct>>

(***************************************************************************)
(* process_log_data                                                        *)
(***************************************************************************)

\* lines 63-66: spark.read.json(log_data), then the filter on page.
ReadLogData ==
    /\ pc = "log_read"
    /\ IF logOk
         THEN /\ df' = FilterNextSong(events)
              /\ pc' = After("log_read")
         ELSE /\ pc' = "failed"
              /\ UNCHANGED df
    /\ UNCHANGED <<catalog, events, songOk, logOk, store, catalog_df,
                   time_table, song_df, run, before, written, lineage, acct>>

\* lines 69-72
WriteUsers ==
    /\ pc = "users_write"
    /\ Write("users", UsersTable(df))
    /\ pc' = After("users_write")
    /\ UNCHANGED <<catalog, events, songOk, logOk, catalog_df, df, time_table,
                   song_df, run, before, lineage, acct>>

\* lines 75-90
WriteTime ==
    /\ pc = "time_write"
    /\ df' = WithTimeColumns(df)
    /\ time_table' = TimeTable(df')
    /\ Write("time", time_table')
    /\ pc' = After("time_write")
    /\ UNCHANGED <<catalog, events, songOk, logOk, catalog_df, song_df, run,
                   before, lineage, acct>>

\* line 93
ReadSongs ==
    /\ pc = "songs_readback"
    /\ song_df' = ReadParquet(store["songs"])
    /\ pc' = After("songs_readback")
    /\ UNCHANGED <<catalog, events, songOk, logOk, store, catalog_df, df,
                   time_table, run, before, written, lineage, acct>>

\* lines 96-105: the engine places the joined rows in partitions as it likes.
WriteSongplays ==
    /\ pc = "songplays_write"
    /\ \E lj \in {LeftJoin(df, song_df)} :
       \E part \in Partitionings(Len(lj)) :
       \E joined \in {SelectSongplays(lj, part)} :
       \E all \in {InnerJoinTime(joined, time_table)} :
       \E sp \in {DropDuplicateRows(all)} :
          /\ Write("songplays", [k \in DOMAIN sp |-> sp[k].row])
          /\ lineage' = [k \in DOMAIN sp |-> sp[k].src]
          /\ acct' = [filtered |-> Len(df),
                      joined |-> Len(joined),
                      matched |-> Len(all),
                      unmatched |-> Cardinality({ i \in DOMAIN df :
                                        \A k \in DOMAIN all : all[k].src # i }),
                      duplicates |-> Len(all) - Len(sp)]
    /\ pc' = After("songplays_write")
    /\ UNCHANGED <<catalog, events, songOk, logOk, catalog_df, df, time_table,
                   song_df, run, before>>

(***************************************************************************)
(* main                                                                    *)
(***************************************************************************)

\* A second run of main() over the same sources.
Rerun ==
    /\ run = 1
    /\ pc \in {"done", "failed"}
    /\ run' = 2
    /\ before' = store
    /\ pc' = After("main")
    /\ catalog_df' = << >>
    /\ df' = << >>
    /\ time_table' = << >>
    /\ song_df' = << >>
    /\ written' = {}
    /\ lineage' = << >>
    /\ acct' = NoAcct
    /\ UNCHANGED <<catalog, events, songOk, logOk, store>>

Next ==
    \/ ReadSongData
    \/ WriteSongs
    \/ WriteArtists
    \/ ReadLogData
    \/ WriteUsers
    \/ WriteTime
    \/ ReadSongs
    \/ WriteSongplays

NextRerun == Next \/ Rerun

\* One run of main().
Spec == Init /\ [][Next]_vars

\* A run of main() and a second run over the same sources.
SpecRerun == Init /\ [][NextRerun]_vars

(***************************************************************************)
(* Properties                                                              *)
(***************************************************************************)

\* The rows of table t on output_data.
Table(t) == ReadParquet(store[t])

NoDuplicateRows(tbl) == \A i, j \in DOMAIN tbl : i # j => tbl[i] # tbl[j]

\* The raw events that are song plays.
SongPlays == { i \in DOMAIN events : events[i].page = "NextSong" }

\* C1 - Filter correctness: every row of users, time and songplays this run
\* wrote derives from a raw event with page = 'NextSong'; an event with any
\* other page contributes no row.
FilterCorrectness ==
    /\ "users" \in written =>
          \A r \in Range(Table("users")) :
             \E i \in SongPlays : r = [c \in UserColumns |-> events[i][c]]
    /\ "time" \in written =>
          \A r \in Range(Table("time")) :
             \E i \in SongPlays : r.start_time = get_timestamp(events[i].ts)
    /\ "songplays" \in written =>
          LET sp == Table("songplays")
          IN  \A k \in DOMAIN sp :
             LET r == sp[k]
                 e == df[lineage[k]]
             IN  /\ e.page = "NextSong"
                 /\ \E i \in SongPlays :
                       /\ \A c \in DOMAIN events[i] : e[c] = events[i][c]
                       /\ r.start_time = get_timestamp(events[i].ts)
                       /\ \A c \in {"userId", "level", "sessionId", "location",
                                    "userAgent"} : r[c] = events[i][c]

\* A finished run over a log of one song play and one event of another page.
FilterWitness ==
    /\ pc = "done"
    /\ Len(events) = 2
    /\ Cardinality(SongPlays) = 1
    /\ Len(Table("users")) = 1
    /\ Len(Table("time")) = 1
    /\ Len(Table("songplays")) >= 1

\* C2 - Join soundness: a songplays row carries the song_id and artist_id of a
\* persisted songs row whose title is its event's song, and null in both only
\* if no songs row has that title; an event without a match is still written.
JoinSoundness ==
    "songplays" \in written =>
       LET sp == Table("songplays")
           songs == Range(Table("songs"))
           Matches(e) == { s \in songs : s.title = e.song }
       IN  /\ \A k \in DOMAIN sp :
                LET e == df[lineage[k]]
                IN  /\ sp[k].song_id # NULL =>
                          \E s \in Matches(e) : /\ s.song_id = sp[k].song_id
                                                /\ s.artist_id = sp[k].artist_id
                    /\ sp[k].artist_id # NULL => sp[k].song_id # NULL
                    /\ sp[k].song_id = NULL =>
                          Matches(e) = {} /\ sp[k].artist_id = NULL
           /\ \A i \in DOMAIN df :
                Matches(df[i]) = {} =>
                   \E k \in DOMAIN sp : /\ lineage[k] = i
                                        /\ sp[k].song_id = NULL
                                        /\ sp[k].artist_id = NULL

\* A finished run that wrote a row with a song and a row without one.
JoinWitness ==
    /\ pc = "done"
    /\ \E k \in DOMAIN store["songplays"] : Table("songplays")[k].song_id = NULL
    /\ \E k \in DOMAIN store["songplays"] : Table("songplays")[k].song_id # NULL

\* C3 - Synthetic id uniqueness: no two rows of the songplays table written
\* carry the same songplay_id, however the joined rows were partitioned.
IdUniqueness ==
    "songplays" \in written =>
       LET sp == Table("songplays")
       IN  \A i, j \in DOMAIN sp : i # j => sp[i].songplay_id # sp[j].songplay_id

\* A finished run whose rows came from two partitions, two of them with the
\* same record number.
IdWitness ==
    /\ pc = "done"
    /\ LET sp == Table("songplays")
       IN  \E i, j \in DOMAIN sp :
              /\ sp[i].songplay_id[1] # sp[j].songplay_id[1]
              /\ sp[i].songplay_id[2] = sp[j].songplay_id[2]

\* C4 - Dedup correctness: after a run no dimension table holds two equal
\* rows, and every catalog record has exactly one songs row.
DedupCorrectness ==
    pc = "done" =>
       /\ \A t \in Dimensions : NoDuplicateRows(Table(t))
       /\ LET songs == Table("songs")
          IN  \A i \in DOMAIN catalog :
                 Cardinality({ k \in DOMAIN songs :
                     songs[k] = [c \in SongColumns |-> catalog[i][c]] }) = 1

\* A finished run over a catalog that repeats a record and a log that repeats
\* a song play.
DedupWitness ==
    /\ pc = "done"
    /\ Len(catalog) = 2 /\ catalog[1] = catalog[2]
    /\ Len(events) = 2 /\ events[1] = events[2] /\ SongPlays # {}
    /\ Len(Table("songs")) = 1

\* C5 - One fact row per qualifying event: every song play has exactly one
\* songplays row, also when several songs rows have its title.
OneRowPerEvent ==
    pc = "done" =>
       \A i \in DOMAIN df : Cardinality({ k \in DOMAIN lineage : lineage[k] = i }) = 1

\* C6 - Drop accounting: filtered events minus songplays rows equals the events
\* without a time row plus the duplicates removed; the songplays rows never
\* outnumber the filtered events.
DropAccounting ==
    pc = "done" =>
       /\ acct.filtered - Len(Table("songplays")) = acct.unmatched + acct.duplicates
       /\ Len(Table("songplays")) <= acct.filtered

TwoPhaseOrdering ==
    /\ pc = "songs_readback" => "songs" \in written
    /\ (pc = "songplays_write" \/ "songplays" \in written) => Dimensions \subseteq written
    /\ pc \in {"songplays_write", "done"} =>
          /\ Range(song_df) = Range(Table("songs"))
          /\ Range(song_df) = Range(Select(catalog, SongColumns))

\* A finished run that started over the tables of an earlier run whose songs
\* table would have matched an event of this run.
TwoPhaseWitness ==
    /\ pc = "done"
    /\ before = StaleStore
    /\ Range(song_df) # Range(ReadParquet(before["songs"]))
    /\ \E i \in DOMAIN df : \E s \in Range(ReadParquet(before["songs"])) :
          s.title = df[i].song

\* C9 - SourceUnavailable is fatal before any write: a run that fails on an
\* unreadable source has written no table and left output_data as it was.
SourceUnavailableBeforeWrite ==
    pc = "failed" => written = {} /\ store = before

\* C10 - The calendar join loses no event: every filtered event has exactly
\* one time row with its start_time, the inner join drops no row and adds
\* none, and the event has a songplays row with the year and month of its
\* time row.
CalendarJoinLossless ==
    pc = "done" =>
       /\ acct.unmatched = 0 /\ acct.matched = acct.joined
       /\ LET tt == Table("time")
              sp == Table("songplays")
          IN  \A i \in DOMAIN df :
             LET rows == { j \in DOMAIN tt : tt[j].start_time = get_timestamp(df[i].ts) }
             IN  /\ Cardinality(rows) = 1
                 /\ \E k \in DOMAIN lineage :
                       /\ lineage[k] = i
                       /\ sp[k].start_time = get_timestamp(df[i].ts)
                       /\ \A j \in rows : /\ sp[k].year = tt[j].year
                                            /\ sp[k].month = tt[j].month

\* A finished run over two different song plays of the same instant.
CalendarWitness ==
    /\ pc = "done"
    /\ Len(df) = 2
    /\ df[1].ts = df[2].ts
    /\ df[1] # df[2]
    /\ Len(Table("songplays")) = 2

=============================================================================
